---- MODULE Spec2Model ----
(***************************************************************************)
(* A model of the PyMax session transport and dispatch engine              *)
(* (src/src/pymax/interfaces.py): frame construction, request/response     *)
(* correlation, session teardown, the outgoing queue worker with its       *)
(* retry policy and circuit breaker, and the incoming dispatch pipeline.   *)
(*                                                                         *)
(* asyncio runs one task at a time and switches only at an await that      *)
(* really suspends, so each action below is the code between two           *)
(* suspension points.                                                      *)
(***************************************************************************)
EXTENDS Integers, Sequences, FiniteSets, TLC

\* ------------------------------------------------------------------ bounds
\* The sequence counter is unbounded in Python; frame building is capped here.
MaxSeq == 3
\* How many times close() is called in one behaviour.
MaxCloseCalls == 2
\* How many messages are enqueued in one behaviour.
MaxEnqueue == 3
\* How many keepalive pings are sent in one behaviour.
MaxPings == 2
\* The step of the clock, in seconds.
TickStep == 5

\* ------------------------------------------------------------- vocabulary
\* The supervised tasks of a session: the receive loop, the outgoing worker,
\* the keepalive loop and one handler task spawned by the dispatch pipeline.
TaskIds == {"recv", "outgoing", "ping", "h1"}
\* Everything that calls _send_and_wait: the tasks above (the receive loop sends
\* the acknowledgments) and a coroutine of the application ("direct").
Callers == TaskIds \cup {"direct"}
NoTask == "None"
\* The worker holds no message.
NoMsg == [payload |-> 0, retry_count |-> 0, max_retries |-> 0]
Finished == {"cancelled", "done", "failed"}

VARIABLES
    is_connected,   \* self.is_connected
    ws,             \* self._ws: "open" or "None"
    socket,         \* self._socket: "open" or "None" (raw TCP transport)
    seq,            \* self._seq
    pending,        \* keys of self._pending
    fut,            \* state of the future created for each sequence number
    completions,    \* how many times each future was given a result or an exception
    frames,         \* the sequence numbers of the frames _make_message returned, in order
    background_tasks, \* self._background_tasks
    tstat,          \* state of each task: none, running, cancelling, cancelled, done, failed
    recv_task,      \* self._recv_task
    outgoing_task,  \* self._outgoing_task
    waiting,        \* the sequence number each caller of _send_and_wait awaits (0: none)
    cl,             \* _cleanup_client: its position, the snapshot it iterates, the task awaited
    hp,             \* the last call of _handle_pending: what it returned and which case it met
    outgoing,       \* self._outgoing: the queued messages, head first
    error_count,    \* self._error_count
    circuit_breaker, \* self._circuit_breaker
    since_error,    \* time.time() - self._last_error_time, in seconds (followed while the breaker is open)
    wk,             \* _outgoing_loop: its position, the message it holds, the sleep left
    ping,           \* _send_interactive_ping: its position, the frames it built
    qlog,           \* what happened to the queued messages (kept for inspection only)
    handlers,       \* the registered handler lists: for each category, the filter of each handler
    dp,             \* _dispatch_incoming: its stage, the handler it is at, the frame
    dlog,           \* what the dispatch of the current frame did (kept for inspection only)
    file_upload_waiters, \* keys of self._file_upload_waiters
    upload_fut,     \* state of the future registered for each file or video identifier
    upload_done,    \* how many times each of these futures was given a result
    sy              \* _sync: its position, why the request failed, what it raised

session_vars == <<is_connected, ws, socket, seq, pending, fut, completions, frames,
                  background_tasks, tstat, recv_task, outgoing_task, waiting, cl, hp>>
\* What the queue worker and the keepalive loop never touch.
session_rest == <<ws, socket, pending, fut, completions, background_tasks, tstat,
                  recv_task, outgoing_task, waiting, cl, hp>>
queue_vars == <<outgoing, error_count, circuit_breaker, since_error, wk, ping, qlog>>

upload_vars == <<file_upload_waiters, upload_fut, upload_done>>
dispatch_vars == <<handlers, dp, dlog, upload_vars>>

sync_vars == <<sy>>

vars == <<session_vars, queue_vars, dispatch_vars, sync_vars>>

conn_vars == <<is_connected, ws, socket>>
task_vars == <<background_tasks, tstat, recv_task, outgoing_task>>
corr_vars == <<pending, fut, completions>>

\* ---------------------------------------------------------- frame builder
\* The opcode each caller of _send_and_wait puts in its frames.
OpcodeOf(c) ==
    CASE c = "ping" -> "PING"
      [] c = "recv" -> "NOTIF_MESSAGE"
      [] c = "outgoing" -> "QUEUED"
      [] OTHER -> "REQUEST"

\* A plausible bug: the counter is advanced twice.
make_message_skips(s, opcode) ==
    [seq |-> s + 2, frame |-> [seq |-> s + 2, opcode |-> opcode]]

\* A plausible bug: the counter is read but never advanced.
make_message_no_increment(s, opcode) ==
    [seq |-> s, frame |-> [seq |-> s, opcode |-> opcode]]

\* _make_message: self._seq += 1, then the frame is stamped with self._seq.
make_message(s, opcode) ==
    LET n == s + 1
    IN  [seq |-> n, frame |-> [seq |-> n, opcode |-> opcode]]

\* ------------------------------------------------------------ correlation
\* What an inbound frame can carry in "seq" after json.loads: an int, a float
\* (1.0 hashes and compares like 1, so dict.get would find it), a string, or
\* nothing at all.
InboundSeqs ==
    {[kind |-> "int", val |-> n] : n \in 1..MaxSeq}
        \cup {[kind |-> "float", val |-> n] : n \in 1..MaxSeq}
        \cup {[kind |-> "str", val |-> 0], [kind |-> "none", val |-> 0]}

\* isinstance(seq, int)
IsInt(s) == s.kind = "int"
\* self._pending.get(seq): the key found, 0 when there is none.
DictGet(p, s) ==
    IF s.kind \in {"int", "float"} /\ s.val \in p THEN s.val ELSE 0
\* fut.done()
FutDone(f, k) == f[k] # "waiting"

\* A plausible bug: the done() test is forgotten.
handle_pending_no_done_check(s, p, f) ==
    LET k == DictGet(p, s)
    IN  IF IsInt(s) /\ k # 0
        THEN [ret |-> TRUE, fut |-> [f EXCEPT ![k] = "result"], key |-> k]
        ELSE [ret |-> FALSE, fut |-> f, key |-> 0]

\* _handle_pending(seq, data): the value returned and the futures afterwards.
handle_pending(s, p, f) ==
    LET k == DictGet(p, s)
    IN  IF IsInt(s) /\ k # 0 /\ ~FutDone(f, k)
        THEN [ret |-> TRUE, fut |-> [f EXCEPT ![k] = "result"], key |-> k]
        ELSE [ret |-> FALSE, fut |-> f, key |-> 0]

\* ------------------------------------------------------------------- Init
\* The client as constructed: not connected, no socket, no task, nothing pending.
SessionInit ==
    /\ is_connected = FALSE
    /\ ws = "None"
    /\ socket = "None"
    /\ seq = 0
    /\ pending = {}
    /\ fut = [k \in 1..MaxSeq |-> "unused"]
    /\ completions = [k \in 1..MaxSeq |-> 0]
    /\ frames = <<>>
    /\ background_tasks = {}
    /\ tstat = [t \in TaskIds |-> "none"]
    /\ recv_task = NoTask
    /\ outgoing_task = NoTask
    /\ waiting = [c \in Callers |-> 0]
    /\ cl = [pc |-> "idle", snapshot |-> {}, cur |-> NoTask, calls |-> 0, started |-> FALSE]
    /\ hp = [ret |-> FALSE, case |-> "never_called"]

\* Which case a call of _handle_pending met (kept for inspection only).
HpCase(s, p, f) ==
    CASE ~IsInt(s) -> "not_int"
      [] IsInt(s) /\ s.val \notin p -> "no_entry"
      [] IsInt(s) /\ s.val \in p /\ FutDone(f, s.val) -> "already_done"
      [] OTHER -> "unresolved_entry"

\* --------------------------------------------------------------- session
\* The transport is usable: what _send_and_wait requires before it transmits.
Live == is_connected /\ (ws = "open" \/ socket = "open")

\* _create_safe_task: the task is created and added to self._background_tasks.
create_safe_task(bg, t) == bg \cup {t}

\* start(): the transport is opened ("ws": WebSocket, "socket": raw TCP) and the
\* receive loop, the outgoing worker and the keepalive loop are launched as
\* supervised tasks.
Start(mode) ==
    /\ UNCHANGED <<queue_vars, dispatch_vars, sync_vars>>
    /\ ~cl.started
    /\ cl.pc = "idle"
    /\ is_connected' = TRUE
    /\ ws' = IF mode = "ws" THEN "open" ELSE "None"
    /\ socket' = IF mode = "socket" THEN "open" ELSE "None"
    /\ background_tasks' =
           create_safe_task(create_safe_task(create_safe_task(background_tasks,
               "recv"), "outgoing"), "ping")
    /\ tstat' = [t \in TaskIds |->
                    IF t \in {"recv", "outgoing", "ping"} THEN "running" ELSE tstat[t]]
    /\ recv_task' = "recv"
    /\ outgoing_task' = "outgoing"
    /\ cl' = [cl EXCEPT !.started = TRUE]
    /\ UNCHANGED <<seq, corr_vars, frames, waiting, hp>>

\* Whether caller c is at a point where it calls _send_and_wait.
\*   ping: _send_interactive_ping sends only at the top of "while self.is_connected";
\*   recv: _send_notification_response returns early without a raw socket or when
\*         the session is not connected.
CanSend(c) ==
    /\ waiting[c] = 0
    /\ c # "direct" => tstat[c] = "running"
    /\ c = "ping" => is_connected
    /\ c = "recv" => (socket # "None" /\ is_connected)

\* _send_and_wait up to its first suspension: the frame is built, and on a live
\* transport its future is registered under the frame's sequence number and the
\* caller waits; without a live transport the call fails at once with a
\* not-connected error and leaves nothing registered.
SendBegin(c) ==
    /\ UNCHANGED <<queue_vars, dispatch_vars, sync_vars>>
    /\ CanSend(c)
    /\ seq < MaxSeq
    /\ LET m == make_message(seq, OpcodeOf(c))
       IN  /\ seq' = m.seq
           /\ frames' = Append(frames, m.frame.seq)
           /\ IF Live
              THEN /\ pending' = pending \cup {m.seq}
                   /\ fut' = [fut EXCEPT ![m.seq] = "waiting"]
                   /\ waiting' = [waiting EXCEPT ![c] = m.seq]
              ELSE UNCHANGED <<pending, fut, waiting>>
    /\ UNCHANGED <<conn_vars, completions, task_vars, cl, hp>>

\* The receive loop reads one frame: it goes to _handle_pending first and, when
\* that returns False, to the dispatch pipeline, where an asynchronous handler
\* may be scheduled through _create_safe_task.
RecvFrame(s, spawn) ==
    /\ UNCHANGED <<queue_vars, dispatch_vars, sync_vars>>
    /\ tstat["recv"] = "running"
    /\ waiting["recv"] = 0
    /\ ws = "open" \/ socket = "open"
    /\ spawn => (tstat["h1"] = "none" /\ ~handle_pending(s, pending, fut).ret)
    /\ LET r == handle_pending(s, pending, fut)
       IN  /\ fut' = r.fut
           /\ completions' = IF r.key # 0
                             THEN [completions EXCEPT ![r.key] = @ + 1]
                             ELSE completions
           /\ hp' = [ret |-> r.ret, case |-> HpCase(s, pending, fut)]
           /\ IF ~r.ret /\ spawn /\ tstat["h1"] = "none"
              THEN /\ background_tasks' = create_safe_task(background_tasks, "h1")
                   /\ tstat' = [tstat EXCEPT !["h1"] = "running"]
              ELSE UNCHANGED <<background_tasks, tstat>>
    /\ UNCHANGED <<conn_vars, seq, pending, frames, recv_task, outgoing_task, waiting, cl>>

\* The caller's wait times out: wait_for cancels the future.
Timeout(c) ==
    /\ UNCHANGED <<queue_vars, dispatch_vars, sync_vars>>
    /\ waiting[c] # 0
    /\ fut[waiting[c]] = "waiting"
    /\ c # "direct" => tstat[c] = "running"
    /\ fut' = [fut EXCEPT ![waiting[c]] = "cancelled"]
    /\ UNCHANGED <<conn_vars, seq, pending, completions, frames, task_vars, waiting, cl, hp>>

\* The caller resumes once its future is done (a result, an exception, a timeout)
\* and removes its entry from the table on the way out.
SendReturn(c) ==
    /\ UNCHANGED <<queue_vars, dispatch_vars, sync_vars>>
    /\ waiting[c] # 0
    /\ fut[waiting[c]] # "waiting"
    /\ c # "direct" => tstat[c] = "running"
    /\ pending' = pending \ {waiting[c]}
    /\ waiting' = [waiting EXCEPT ![c] = 0]
    /\ UNCHANGED <<conn_vars, seq, fut, completions, frames, task_vars, cl, hp>>

\* What a task leaves behind when it stops inside _send_and_wait: the future it
\* awaited is cancelled and its entry removed.
Abandon(t) ==
    /\ pending' = pending \ {waiting[t]}
    /\ fut' = IF waiting[t] # 0 /\ fut[waiting[t]] = "waiting"
              THEN [fut EXCEPT ![waiting[t]] = "cancelled"]
              ELSE fut
    /\ waiting' = [waiting EXCEPT ![t] = 0]

\* runner() of _create_safe_task, "except asyncio.CancelledError: raise": a
\* cancelled task ends at the suspension point it is waiting at.
TaskCancelled(t) ==
    /\ UNCHANGED <<queue_vars, dispatch_vars, sync_vars>>
    /\ tstat[t] = "cancelling"
    /\ tstat' = [tstat EXCEPT ![t] = "cancelled"]
    /\ Abandon(t)
    /\ UNCHANGED <<conn_vars, seq, completions, frames, background_tasks,
                   recv_task, outgoing_task, cl, hp>>

\* runner() of _create_safe_task, "except Exception: ... raise": the receive loop
\* or a handler raises, the exception is logged and becomes the task's outcome.
\* (_outgoing_loop and _send_interactive_ping catch Exception themselves.)
TaskFail(t) ==
    /\ UNCHANGED <<queue_vars, dispatch_vars, sync_vars>>
    /\ t \in {"recv", "h1"}
    /\ tstat[t] = "running"
    /\ tstat' = [tstat EXCEPT ![t] = "failed"]
    /\ Abandon(t)
    /\ UNCHANGED <<conn_vars, seq, completions, frames, background_tasks,
                   recv_task, outgoing_task, cl, hp>>

\* A task returns: a handler when it is done, the loops ("while self.is_connected")
\* once the session is no longer connected.
TaskExit(t) ==
    /\ UNCHANGED <<queue_vars, dispatch_vars, sync_vars>>
    /\ tstat[t] = "running"
    /\ waiting[t] = 0
    /\ t # "h1" => ~is_connected
    /\ tstat' = [tstat EXCEPT ![t] = "done"]
    /\ UNCHANGED <<conn_vars, seq, corr_vars, frames, background_tasks,
                   recv_task, outgoing_task, waiting, cl, hp>>

\* ------------------------------------------------------- _cleanup_client
\* task.cancel(): a task still running is asked to stop; a finished one is left alone.
Cancel(ts, t) == IF ts[t] = "running" THEN [ts EXCEPT ![t] = "cancelling"] ELSE ts

\* close() is called: "for task in list(self._background_tasks)" takes its snapshot.
CleanupStart ==
    /\ UNCHANGED <<queue_vars, dispatch_vars, sync_vars>>
    /\ cl.pc \in {"idle", "done", "raised"}
    /\ cl.calls < MaxCloseCalls
    /\ cl' = [cl EXCEPT !.pc = "bg", !.snapshot = background_tasks,
                        !.cur = NoTask, !.calls = @ + 1]
    /\ UNCHANGED <<conn_vars, seq, corr_vars, frames, task_vars, waiting, hp>>

\* The first loop, one task of the snapshot: task.cancel(), then "await task".
CleanupBgCancel(t) ==
    /\ UNCHANGED <<queue_vars, dispatch_vars, sync_vars>>
    /\ cl.pc = "bg"
    /\ t \in cl.snapshot
    /\ tstat' = Cancel(tstat, t)
    /\ cl' = [cl EXCEPT !.pc = "bg_await", !.cur = t]
    /\ UNCHANGED <<conn_vars, seq, corr_vars, frames, background_tasks,
                   recv_task, outgoing_task, waiting, hp>>

\* "await task" returns or raises (CancelledError and Exception are both caught),
\* then self._background_tasks.discard(task).
CleanupBgAwaited ==
    /\ UNCHANGED <<queue_vars, dispatch_vars, sync_vars>>
    /\ cl.pc = "bg_await"
    /\ tstat[cl.cur] \in Finished
    /\ background_tasks' = background_tasks \ {cl.cur}
    /\ cl' = [cl EXCEPT !.pc = "bg", !.snapshot = @ \ {cl.cur}, !.cur = NoTask]
    /\ UNCHANGED <<conn_vars, seq, corr_vars, frames, tstat,
                   recv_task, outgoing_task, waiting, hp>>

\* "if self._recv_task:" cancel it and await it.
CleanupRecvCancel ==
    /\ UNCHANGED <<queue_vars, dispatch_vars, sync_vars>>
    /\ cl.pc = "bg"
    /\ cl.snapshot = {}
    /\ IF recv_task = NoTask
       THEN /\ cl' = [cl EXCEPT !.pc = "out"]
            /\ UNCHANGED tstat
       ELSE /\ tstat' = Cancel(tstat, recv_task)
            /\ cl' = [cl EXCEPT !.pc = "recv_await"]
    /\ UNCHANGED <<conn_vars, seq, corr_vars, frames, background_tasks,
                   recv_task, outgoing_task, waiting, hp>>

\* "with contextlib.suppress(asyncio.CancelledError): await self._recv_task": only
\* a cancellation is suppressed, so the exception of a failed receive loop leaves
\* _cleanup_client here; otherwise self._recv_task = None.
CleanupRecvAwaited ==
    /\ UNCHANGED <<queue_vars, dispatch_vars, sync_vars>>
    /\ cl.pc = "recv_await"
    /\ tstat[recv_task] \in Finished
    /\ IF tstat[recv_task] = "failed"
       THEN /\ cl' = [cl EXCEPT !.pc = "raised"]
            /\ UNCHANGED recv_task
       ELSE /\ cl' = [cl EXCEPT !.pc = "out"]
            /\ recv_task' = NoTask
    /\ UNCHANGED <<conn_vars, seq, corr_vars, frames, background_tasks, tstat,
                   outgoing_task, waiting, hp>>

\* "if self._outgoing_task:" cancel it and await it.
CleanupOutCancel ==
    /\ UNCHANGED <<queue_vars, dispatch_vars, sync_vars>>
    /\ cl.pc = "out"
    /\ IF outgoing_task = NoTask
       THEN /\ cl' = [cl EXCEPT !.pc = "fail_all"]
            /\ UNCHANGED tstat
       ELSE /\ tstat' = Cancel(tstat, outgoing_task)
            /\ cl' = [cl EXCEPT !.pc = "out_await"]
    /\ UNCHANGED <<conn_vars, seq, corr_vars, frames, background_tasks,
                   recv_task, outgoing_task, waiting, hp>>

CleanupOutAwaited ==
    /\ UNCHANGED <<queue_vars, dispatch_vars, sync_vars>>
    /\ cl.pc = "out_await"
    /\ tstat[outgoing_task] \in Finished
    /\ IF tstat[outgoing_task] = "failed"
       THEN /\ cl' = [cl EXCEPT !.pc = "raised"]
            /\ UNCHANGED outgoing_task
       ELSE /\ cl' = [cl EXCEPT !.pc = "fail_all"]
            /\ outgoing_task' = NoTask
    /\ UNCHANGED <<conn_vars, seq, corr_vars, frames, background_tasks, tstat,
                   recv_task, waiting, hp>>

\* A plausible bug: the table is cleared without failing the futures in it.
fail_all_clear_only(p, f) == f

\* "for fut in self._pending.values(): if not fut.done(): fut.set_exception(...)":
\* the futures afterwards.
fail_all(p, f) ==
    [k \in DOMAIN f |-> IF k \in p /\ ~FutDone(f, k) THEN "not_connected" ELSE f[k]]

\* The pending futures are failed and the table cleared, with no suspension in
\* between; then "if self._ws:" starts closing the socket, which suspends, and
\* without a WebSocket the teardown finishes at once.
CleanupFailAll ==
    /\ UNCHANGED <<queue_vars, dispatch_vars, sync_vars>>
    /\ cl.pc = "fail_all"
    /\ fut' = fail_all(pending, fut)
    /\ completions' = [k \in DOMAIN completions |->
                          IF k \in pending /\ ~FutDone(fut, k)
                          THEN completions[k] + 1 ELSE completions[k]]
    /\ pending' = {}
    /\ IF ws # "None"
       THEN /\ cl' = [cl EXCEPT !.pc = "ws_close"]
            /\ UNCHANGED conn_vars
       ELSE /\ cl' = [cl EXCEPT !.pc = "done"]
            /\ is_connected' = FALSE
            /\ UNCHANGED <<ws, socket>>
    /\ UNCHANGED <<seq, frames, task_vars, waiting, hp>>

\* "await self._ws.close()" returns (or raises, which is caught): self._ws = None,
\* self.is_connected = False, and _cleanup_client returns.
CleanupWsClosed ==
    /\ UNCHANGED <<queue_vars, dispatch_vars, sync_vars>>
    /\ cl.pc = "ws_close"
    /\ ws' = "None"
    /\ is_connected' = FALSE
    /\ cl' = [cl EXCEPT !.pc = "done"]
    /\ UNCHANGED <<socket, seq, corr_vars, frames, task_vars, waiting, hp>>

Cleanup ==
    \/ CleanupStart
    \/ \E t \in TaskIds : CleanupBgCancel(t)
    \/ CleanupBgAwaited
    \/ CleanupRecvCancel
    \/ CleanupRecvAwaited
    \/ CleanupOutCancel
    \/ CleanupOutAwaited
    \/ CleanupFailAll
    \/ CleanupWsClosed

\* ------------------------------------------------- dispatch: vocabulary
\* The handler lists of the client: raw-receive hooks, the three message sets,
\* reaction-change handlers and chat-update handlers.
Categories == {"raw", "message", "edit", "delete", "reaction", "chat"}
\* The lists whose entries are (handler, filter) pairs.
MessageSets == {"message", "edit", "delete"}
\* A filter is absent, or it is a predicate that returns true, returns false or
\* raises for the message at hand.
Filters == {"none", "pass", "reject", "raises"}
FiltersOf(c) == IF c \in MessageSets THEN Filters ELSE {"none"}
\* What calling a handler does: it returns, it raises, or it returns a coroutine.
HandlerOutcomes == {"returns", "raises", "coroutine"}
\* Python's None where a number is expected.
NoneVal == -1
\* Truth value of an optional number: None and 0 are false.
Truthy(x) == x # NoneVal /\ x # 0
NoFrame == [opcode |-> "None", status |-> "None", chat_id |-> NoneVal,
            id |-> NoneVal, decoded |-> FALSE,
      file_id |-> NoneVal, video_id |-> NoneVal]

\* How many file or video identifiers uploads wait for.
MaxUploadId == 2
UploadIds == 1..MaxUploadId

\* _sync has not been called.
SyncIdle == sy = [pc |-> "idle", cause |-> "None", raised |-> "None", calls |-> 0]

\* No upload is waiting.
UploadIdle ==
    /\ file_upload_waiters = {}
    /\ upload_fut = [k \in UploadIds |-> "none"]
    /\ upload_done = [k \in UploadIds |-> 0]

\* No handler registered, no frame dispatched yet.
DispatchIdle ==
    /\ handlers = [c \in Categories |-> <<>>]
    /\ dp = [pc |-> "idle", i |-> 0, awaiting |-> FALSE, cause |-> "None",
             frame |-> NoFrame]
    /\ dlog = [invoked |-> [c \in Categories |-> <<>>], acks |-> <<>>, popped |-> {}]
    /\ UploadIdle
    /\ SyncIdle

\* The queue as constructed: empty, the breaker closed, no error counted.
QueueIdle ==
    /\ outgoing = <<>>
    /\ error_count = 0
    /\ circuit_breaker = FALSE
    /\ since_error = 0
    /\ wk = [pc |-> "top", msg |-> NoMsg, left |-> 0]
    /\ ping = [pc |-> "top", seqs |-> {}, last |-> "none"]
    /\ qlog = [enq |-> 0, attempts |-> [i \in 1..MaxEnqueue |-> 0],
               trips |-> [i \in 1..MaxEnqueue |-> 0], dropped |-> {},
               fail_run |-> 0, any_fail |-> FALSE, qframes |-> <<>>]

\* The client as constructed.
Init == SessionInit /\ QueueIdle /\ DispatchIdle

\* The callers that stay alive while the session is torn down: a coroutine of
\* the application, a handler task, and the two loops _cleanup_client awaits.
CloseCallers == {"direct", "h1", "outgoing"}

\* Requests and replies of a running session.
Next ==
    \/ \E mode \in {"ws", "socket"} : Start(mode)
    \/ \E c \in Callers : SendBegin(c)
    \/ \E s \in InboundSeqs, spawn \in BOOLEAN : RecvFrame(s, spawn)
    \/ \E c \in Callers : Timeout(c)
    \/ \E c \in Callers : SendReturn(c)

Spec == Init /\ [][Next]_vars

\* The session and its teardown.
NextClose ==
    \/ \E mode \in {"ws", "socket"} : Start(mode)
    \/ \E c \in CloseCallers : SendBegin(c)
    \/ \E s \in InboundSeqs, spawn \in BOOLEAN : RecvFrame(s, spawn)
    \/ \E c \in CloseCallers : SendReturn(c)
    \/ \E t \in TaskIds : TaskCancelled(t)
    \/ \E t \in TaskIds : TaskFail(t)
    \/ \E t \in TaskIds : TaskExit(t)
    \/ Cleanup

SpecClose == Init /\ [][NextClose]_vars

\* ================================================================ claims
\* C1: every call of the frame builder advances the session sequence counter by
\* exactly one and stamps the frame with the new value, so whichever tasks build
\* frames and in whatever order, the frames built so far carry the numbers
\* 1, 2, ..., seq: no two frames share a number and each number is greater than
\* all the numbers before it.
C1_SequenceStrictlyIncreasing ==
    /\ Len(frames) = seq
    /\ \A i \in 1..Len(frames) : frames[i] = i
    /\ \A i, j \in 1..Len(frames) : i < j => frames[i] < frames[j]

\* Three different callers (keepalive, worker, application) have each built a
\* frame and are waiting for its reply.
C1_Witness ==
    /\ Len(frames) = 3
    /\ waiting["ping"] # 0 /\ waiting["outgoing"] # 0 /\ waiting["direct"] # 0
    /\ Cardinality({waiting["ping"], waiting["outgoing"], waiting["direct"]}) = 3

\* The entry an inbound frame with sequence s fulfils: the unresolved one
\* registered under s, when s is an integer.
Fulfils(s) == IsInt(s) /\ s.val \in pending /\ fut[s.val] = "waiting"

\* C2: an inbound frame with sequence S fulfils the unresolved entry registered
\* under S and no other, and _handle_pending then returns true; with no entry
\* under S, with an entry that is already completed, or with an S that is not an
\* integer, _handle_pending returns false and changes no entry. No future is
\* ever completed twice.
C2_HandlePendingResolvesOnlyItsEntry ==
    /\ [](\A k \in 1..MaxSeq : completions[k] <= 1)
    /\ [][\A s \in InboundSeqs :
            (\E spawn \in BOOLEAN : RecvFrame(s, spawn)) =>
                IF Fulfils(s)
                THEN /\ hp'.ret = TRUE
                     /\ fut' = [fut EXCEPT ![s.val] = "result"]
                     /\ pending' = pending
                ELSE /\ hp'.ret = FALSE
                     /\ fut' = fut
                     /\ pending' = pending
                     /\ completions' = completions]_vars

\* A reply arrived for an entry that was already resolved and still in the table:
\* _handle_pending returned false and the entry kept its one result.
C2_Witness ==
    /\ hp.case = "already_done"
    /\ hp.ret = FALSE
    /\ \E k \in pending : fut[k] = "result" /\ completions[k] = 1

\* C3: once close() has returned, the pending table is empty and no request is
\* left waiting unresolved.
C3_CloseLeavesNothingPending ==
    cl.pc = "done" =>
        /\ pending = {}
        /\ \A k \in 1..MaxSeq : fut[k] # "waiting"

\* C4: close() raises no error, also when the session is already partly torn
\* down; no future is completed twice; and after a repeated call the session is in
\* the final state: no background task, nothing pending, no socket, not connected.
C4_CloseIdempotent ==
    /\ cl.pc # "raised"
    /\ \A k \in 1..MaxSeq : completions[k] <= 1
    /\ (cl.pc = "done" /\ cl.calls >= 2) =>
           /\ background_tasks = {}
           /\ pending = {}
           /\ ws = "None"
           /\ ~is_connected

\* ================================================== outgoing queue worker
\* The classes of error _get_retry_delay tells apart, as _send_and_wait raises them.
ErrorClasses == {"ConnectionError", "TimeoutError", "WebSocketNotConnectedError", "Exception"}

\* 2 ** n
RECURSIVE Pow2(_)
Pow2(n) == IF n = 0 THEN 1 ELSE 2 * Pow2(n - 1)

\* isinstance(error, cls) for the classes _get_retry_delay tests. In Python the
\* builtin ConnectionError and TimeoutError are both subclasses of OSError.
IsInstance(error, cls) ==
    \/ error = cls
    \/ cls = "OSError" /\ error \in {"ConnectionError", "TimeoutError"}
    \/ cls = "Exception"

\* _get_retry_delay(error, retry_count), in seconds.
get_retry_delay(error, retry_count) ==
    IF IsInstance(error, "ConnectionError") \/ IsInstance(error, "OSError") THEN 1
    ELSE IF IsInstance(error, "TimeoutError") THEN 5
    ELSE IF IsInstance(error, "WebSocketNotConnectedError") THEN 2
    ELSE Pow2(retry_count)

\* The cool-down of the breaker and the pause of the worker while it is open.
CoolDown == 60
BreakerSleep == 5
\* The error count above which the breaker opens.
BreakerThreshold == 10

\* A plausible bug: the breaker reopens the path as soon as 60 seconds are reached.
cooldown_elapsed_at_60(elapsed) == elapsed >= CoolDown

\* A plausible bug: the cool-down is compared in milliseconds.
cooldown_elapsed_in_ms(elapsed) == elapsed > CoolDown * 1000

\* "time.time() - self._last_error_time > 60"
cooldown_elapsed(elapsed) == elapsed > CoolDown

\* A plausible bug: one retry too many.
should_retry_off_by_one(retry_count, max_retries) == retry_count <= max_retries

\* "if retry_count < max_retries:"
should_retry(retry_count, max_retries) == retry_count < max_retries

\* A plausible bug: the breaker opens as the counter reaches the threshold.
breaker_trips_at_threshold(n) == n >= BreakerThreshold

\* "if self._error_count > 10:"
breaker_trips(n) == n > BreakerThreshold

\* A plausible bug: the counter is lowered without its floor.
decrement_error_count_no_floor(n) == n - 1

\* "max(0, self._error_count - 1)"
decrement_error_count(n) == IF n - 1 > 0 THEN n - 1 ELSE 0

\* A plausible bug: the message to retry jumps the queue.
retry_requeue_at_head(q, message) == <<message>> \o q

\* "await self._outgoing.put(message)" after the retry delay.
retry_requeue(q, message) == Append(q, message)

\* A plausible bug: the failure that opens the breaker counts as a retry.
breaker_requeue_counts_retry(q, message) ==
    Append(q, [message EXCEPT !.retry_count = @ + 1])

\* "await self._outgoing.put(message)" as the breaker opens: the message goes to
\* the tail as it was dequeued.
breaker_requeue(q, message) == Append(q, message)

\* The session is connected and its queue exists; nothing is queued.
QueueInit ==
    /\ is_connected = TRUE
    /\ ws = "open"
    /\ socket = "None"
    /\ seq = 0
    /\ pending = {}
    /\ fut = [k \in 1..MaxSeq |-> "unused"]
    /\ completions = [k \in 1..MaxSeq |-> 0]
    /\ frames = <<>>
    /\ background_tasks = {"recv", "outgoing", "ping"}
    /\ tstat = [t \in TaskIds |-> IF t = "h1" THEN "none" ELSE "running"]
    /\ recv_task = "recv"
    /\ outgoing_task = "outgoing"
    /\ waiting = [c \in Callers |-> 0]
    /\ cl = [pc |-> "idle", snapshot |-> {}, cur |-> NoTask, calls |-> 0, started |-> TRUE]
    /\ hp = [ret |-> FALSE, case |-> "never_called"]
    /\ QueueIdle
    /\ DispatchIdle

\* _queue_message(opcode, payload, cmd, timeout, max_retries): the message is put
\* at the tail with retry_count 0. The payload stands for opcode, payload, cmd
\* and timeout, which nothing changes afterwards.
QueueMessage(max_retries) ==
    /\ qlog.enq < MaxEnqueue
    /\ outgoing' = Append(outgoing, [payload |-> qlog.enq + 1, retry_count |-> 0,
                                     max_retries |-> max_retries])
    /\ qlog' = [qlog EXCEPT !.enq = @ + 1]
    /\ UNCHANGED <<is_connected, seq, frames, session_rest, dispatch_vars, sync_vars,
                   error_count, circuit_breaker, since_error, wk, ping>>

\* The top of "while self.is_connected": the loop ends when the session is not
\* connected; with the breaker open it either resets the breaker (cool-down over)
\* or sleeps 5 seconds and comes back; otherwise it goes on to the queue.
WorkerTop ==
    /\ wk.pc = "top"
    /\ IF ~is_connected
       THEN /\ wk' = [wk EXCEPT !.pc = "exited"]
            /\ UNCHANGED <<circuit_breaker, error_count, qlog>>
       ELSE IF circuit_breaker
       THEN IF cooldown_elapsed(since_error)
            THEN /\ circuit_breaker' = FALSE
                 /\ error_count' = 0
                 /\ wk' = [wk EXCEPT !.pc = "get"]
                 /\ qlog' = [qlog EXCEPT !.fail_run = 0]
            ELSE /\ wk' = [wk EXCEPT !.pc = "breaker_sleep", !.left = BreakerSleep]
                 /\ UNCHANGED <<circuit_breaker, error_count, qlog>>
       ELSE /\ wk' = [wk EXCEPT !.pc = "get"]
            /\ UNCHANGED <<circuit_breaker, error_count, qlog>>
    /\ UNCHANGED <<is_connected, seq, frames, session_rest, dispatch_vars, sync_vars, outgoing, since_error, ping>>

\* "await asyncio.sleep(...)" is over: after the breaker pause the loop continues
\* at the top; after a retry delay the message is put back at the tail first.
WorkerWake ==
    /\ wk.pc \in {"breaker_sleep", "retry_sleep"}
    /\ wk.left = 0
    /\ outgoing' = IF wk.pc = "retry_sleep" THEN retry_requeue(outgoing, wk.msg)
                   ELSE outgoing
    /\ wk' = [pc |-> "top", msg |-> NoMsg, left |-> 0]
    /\ UNCHANGED <<is_connected, seq, frames, session_rest, dispatch_vars, sync_vars,
                   error_count, circuit_breaker, since_error, ping, qlog>>

\* "message = await self._outgoing.get()" returns the head of the queue and
\* _send_and_wait builds the frame of this attempt.
WorkerGet ==
    /\ wk.pc = "get"
    /\ outgoing # <<>>
    /\ LET message == Head(outgoing)
           m == make_message(seq, "QUEUED")
       IN  /\ outgoing' = Tail(outgoing)
           /\ seq' = m.seq
           /\ frames' = Append(frames, m.frame.seq)
           /\ wk' = [wk EXCEPT !.pc = "sending", !.msg = message]
           /\ qlog' = [qlog EXCEPT
                  !.attempts[message.payload] = @ + 1,
                  !.qframes = IF qlog.any_fail THEN <<>> ELSE Append(@, m.frame.seq)]
    /\ UNCHANGED <<is_connected, session_rest, dispatch_vars, sync_vars, error_count, circuit_breaker,
                   since_error, ping>>

\* _send_and_wait returned: "self._error_count = max(0, self._error_count - 1)".
WorkerSendOk ==
    /\ wk.pc = "sending"
    /\ error_count' = decrement_error_count(error_count)
    /\ wk' = [pc |-> "top", msg |-> NoMsg, left |-> 0]
    /\ qlog' = [qlog EXCEPT !.attempts[wk.msg.payload] = 0,
                            !.trips[wk.msg.payload] = 0, !.fail_run = 0]
    /\ UNCHANGED <<is_connected, seq, frames, session_rest, dispatch_vars, sync_vars, outgoing,
                   circuit_breaker, since_error, ping>>

\* _send_and_wait raised e: the error is counted and its time recorded; above the
\* threshold the breaker opens and the message goes back to the tail as it is;
\* otherwise the message is retried after its delay, with retry_count + 1, while
\* retry_count < max_retries, and dropped after that.
WorkerSendFail(e) ==
    /\ wk.pc = "sending"
    /\ error_count' = error_count + 1
    /\ since_error' = 0
    /\ LET message == wk.msg
           id == message.payload
           run == IF qlog.fail_run < BreakerThreshold + 1 THEN qlog.fail_run + 1
                  ELSE qlog.fail_run
       IN  IF breaker_trips(error_count')
           THEN /\ circuit_breaker' = TRUE
                /\ outgoing' = breaker_requeue(outgoing, message)
                /\ wk' = [pc |-> "top", msg |-> NoMsg, left |-> 0]
                /\ qlog' = [qlog EXCEPT !.trips[id] = @ + 1, !.fail_run = run,
                                        !.any_fail = TRUE, !.qframes = <<>>]
           ELSE IF should_retry(message.retry_count, message.max_retries)
           THEN /\ wk' = [pc |-> "retry_sleep",
                          msg |-> [message EXCEPT !.retry_count = @ + 1],
                          left |-> get_retry_delay(e, message.retry_count)]
                /\ qlog' = [qlog EXCEPT !.fail_run = run, !.any_fail = TRUE,
                                        !.qframes = <<>>]
                /\ UNCHANGED <<circuit_breaker, outgoing>>
           ELSE /\ wk' = [pc |-> "top", msg |-> NoMsg, left |-> 0]
                /\ qlog' = [qlog EXCEPT
                       !.dropped = @ \cup {[payload |-> id,
                                            max_retries |-> message.max_retries,
                                            attempts |-> qlog.attempts[id],
                                            trips |-> qlog.trips[id]]},
                       !.attempts[id] = 0, !.trips[id] = 0, !.fail_run = run,
                       !.any_fail = TRUE, !.qframes = <<>>]
                /\ UNCHANGED <<circuit_breaker, outgoing>>
    /\ UNCHANGED <<is_connected, seq, frames, session_rest, dispatch_vars, sync_vars, ping>>

Min(a, b) == IF a < b THEN a ELSE b
Max(a, b) == IF a > b THEN a ELSE b

\* Time passes: a sleeping worker gets closer to waking up and, with the breaker
\* open, the last error gets older (the clock stops counting past the cool-down).
Tick ==
    /\ \/ wk.left > 0
       \/ circuit_breaker /\ since_error <= CoolDown
    /\ wk' = [wk EXCEPT !.left = Max(@ - TickStep, 0)]
    /\ since_error' = IF circuit_breaker
                      THEN Min(since_error + TickStep, CoolDown + TickStep)
                      ELSE since_error
    /\ UNCHANGED <<is_connected, seq, frames, session_rest, dispatch_vars, sync_vars, outgoing,
                   error_count, circuit_breaker, ping, qlog>>

\* _send_interactive_ping, one round of "while self.is_connected": the loop ends
\* when the session is not connected; otherwise the ping frame is built and
\* sent, and the loop ends on SocketNotConnectedError and sleeps on anything else.
\* ping.last keeps how the latest ping ended.
PingRound(outcome) ==
    /\ ping.pc = "top"
    /\ IF ~is_connected
       THEN /\ ping' = [ping EXCEPT !.pc = "exited"]
            /\ UNCHANGED <<seq, frames>>
       ELSE /\ Cardinality(ping.seqs) < MaxPings
            /\ LET m == make_message(seq, "PING")
               IN  /\ seq' = m.seq
                   /\ frames' = Append(frames, m.frame.seq)
                   /\ ping' = [pc |-> IF outcome = "SocketNotConnectedError"
                                      THEN "exited" ELSE "sleep",
                               seqs |-> ping.seqs \cup {m.frame.seq},
                               last |-> outcome]
    /\ UNCHANGED <<is_connected, session_rest, dispatch_vars, sync_vars, outgoing, error_count,
                   circuit_breaker, since_error, wk, qlog>>

\* "await asyncio.sleep(DEFAULT_PING_INTERVAL)" is over.
PingWake ==
    /\ ping.pc = "sleep"
    /\ ping' = [ping EXCEPT !.pc = "top"]
    /\ UNCHANGED <<is_connected, seq, frames, session_rest, dispatch_vars, sync_vars, outgoing, error_count,
                   circuit_breaker, since_error, wk, qlog>>

\* The session is marked disconnected ("self.is_connected = False" in
\* _cleanup_client and in _sync).
Disconnect ==
    /\ is_connected
    /\ is_connected' = FALSE
    /\ UNCHANGED <<seq, frames, session_rest, queue_vars, dispatch_vars, sync_vars>>

PingOutcomes == {"ok", "SocketNotConnectedError", "WebSocketNotConnectedError", "Exception"}
MaxRetriesChoices == {3, 5}

\* The queue, its worker, the breaker and the clock.
NextQueue ==
    \/ \E mr \in MaxRetriesChoices : QueueMessage(mr)
    \/ WorkerTop
    \/ WorkerWake
    \/ WorkerGet
    \/ WorkerSendOk
    \/ \E e \in ErrorClasses : WorkerSendFail(e)
    \/ Tick
    \/ Disconnect

SpecQueue == QueueInit /\ [][NextQueue]_vars

\* The worker is a task the event loop keeps scheduling, and the clock runs.
Worker == WorkerTop \/ WorkerWake \/ WorkerGet
SpecQueueFair ==
    /\ QueueInit
    /\ [][NextQueue]_vars
    /\ WF_vars(Worker)
    /\ WF_vars(Tick)
    /\ WF_vars(WorkerSendOk \/ \E e \in ErrorClasses : WorkerSendFail(e))

\* The queue and the keepalive loop on a network where no send fails.
NextNoError ==
    \/ \E mr \in MaxRetriesChoices : QueueMessage(mr)
    \/ WorkerTop
    \/ WorkerGet
    \/ WorkerSendOk
    \/ \E o \in PingOutcomes : PingRound(o)
    \/ PingWake
    \/ Disconnect

SpecNoError == QueueInit /\ [][NextNoError]_vars

\* ------------------------------------------------------ claims: the queue
\* The payloads in the queue or in the worker's hands.
QueuedIds == {outgoing[i].payload : i \in 1..Len(outgoing)}
InSystem(id) == id \in QueuedIds \/ wk.msg.payload = id
\* The message with payload id, wherever it is held.
MessageOf(id) ==
    IF wk.msg.payload = id THEN wk.msg
    ELSE outgoing[CHOOSE i \in 1..Len(outgoing) : outgoing[i].payload = id]
\* Attempts made with a message whose retry_count is as it is now.
AttemptsSoFar(id) ==
    IF wk.msg.payload = id /\ wk.pc = "sending" THEN MessageOf(id).retry_count + 1
    ELSE MessageOf(id).retry_count

\* C5 as stated: a message with max_retries = 3 is never attempted more than 4
\* times, has been attempted exactly 4 times when it is dropped, and a dropped
\* message is not in the queue again.
C5_ExactlyFourAttempts ==
    /\ \A d \in qlog.dropped : d.max_retries = 3 => d.attempts = 4
    /\ \A id \in 1..MaxEnqueue :
           (InSystem(id) /\ MessageOf(id).max_retries = 3) => qlog.attempts[id] <= 4
    /\ \A d \in qlog.dropped : ~InSystem(d.payload)

\* C5 amended: a message with max_retries = 3 whose sends all fail is attempted
\* with retry_count 0, 1, 2, 3 and then dropped and never re-enqueued: exactly 4
\* attempts when none of its failures trips the circuit breaker, and one more
\* attempt for each failure of it that trips the breaker, which puts it back with
\* its retry_count unchanged.
C5_FourAttemptsPlusBreakerTrips ==
    /\ \A d \in qlog.dropped : d.max_retries = 3 => d.attempts = 4 + d.trips
    /\ \A id \in 1..MaxEnqueue :
           (InSystem(id) /\ MessageOf(id).max_retries = 3) =>
               /\ qlog.attempts[id] = AttemptsSoFar(id) + qlog.trips[id]
               /\ MessageOf(id).retry_count \in 0..3
               /\ qlog.attempts[id] <= 4 + qlog.trips[id]
    /\ \A d \in qlog.dropped : ~InSystem(d.payload)

\* One message was dropped after exactly 4 attempts, another after 5 because one
\* of its failures tripped the breaker.
C5_Witness ==
    /\ \E d \in qlog.dropped : d.max_retries = 3 /\ d.trips = 0 /\ d.attempts = 4
    /\ \E d \in qlog.dropped : d.max_retries = 3 /\ d.trips = 1 /\ d.attempts = 5

\* q is p with messages added at its tail.
IsPrefix(p, q) == Len(p) <= Len(q) /\ SubSeq(q, 1, Len(p)) = p

\* C6: after 11 failed sends in a row the breaker is open; while it is open and
\* no more than 60 seconds have passed since the last error, no step dequeues a
\* message or makes a send attempt, and the breaker stays open, while a message
\* can still be enqueued; the worker closes the breaker only once more than 60
\* seconds have passed, resets the counter and goes on to the queue; and an open
\* breaker always leads to the next send attempt, unless the session is
\* disconnected first.
C6_BreakerOpensAndCoolsDown ==
    /\ [](qlog.fail_run >= 11 => circuit_breaker)
    /\ []((circuit_breaker /\ qlog.enq < MaxEnqueue) => ENABLED QueueMessage(3))
    /\ [][(circuit_breaker /\ since_error <= 60) =>
              /\ circuit_breaker'
              /\ qlog'.attempts = qlog.attempts
              /\ IsPrefix(outgoing, outgoing')
              /\ wk'.pc # "sending"]_vars
    /\ [][(circuit_breaker /\ ~circuit_breaker') =>
              /\ since_error > 60
              /\ error_count' = 0
              /\ wk'.pc = "get"
              /\ outgoing' # <<>>]_vars
    /\ (circuit_breaker ~> (wk.pc = "sending" \/ ~is_connected))

\* The breaker is open after 11 failures in a row and a message was enqueued
\* behind the one that tripped it.
C6_Witness ==
    /\ circuit_breaker
    /\ qlog.fail_run = 11
    /\ since_error = 60
    /\ wk.pc = "breaker_sleep"
    /\ Len(outgoing) >= 2
    /\ outgoing[Len(outgoing)].retry_count = 0
    /\ qlog.attempts[outgoing[Len(outgoing)].payload] = 0

\* The frames of the queued requests carry consecutive numbers.
Consecutive(q) == \A i \in 1..Len(q) : q[i] = q[1] + i - 1
\* The keepalive frames built between the first and the last frame of q.
PingsWithin(q) ==
    IF q = <<>> THEN {} ELSE {n \in ping.seqs : q[1] < n /\ n < q[Len(q)]}

\* C9 as stated: with no failed send, every request taken from the queue was
\* built into exactly one frame and the sequence numbers of these frames are
\* consecutive.
C9_ConsecutiveSequenceNumbers ==
    ~qlog.any_fail =>
        /\ Len(qlog.qframes) = qlog.enq - Len(outgoing)
        /\ Consecutive(qlog.qframes)

\* C9 amended: with no failed send, every request taken from the queue is built
\* into exactly one frame, and the sequence numbers of these frames are strictly
\* increasing in the order of sending, with no repeats; they are consecutive
\* exactly when no other task (such as the keepalive loop) builds a frame in
\* between, and each such frame accounts for one skipped number.
C9_IncreasingSequenceNumbers ==
    ~qlog.any_fail =>
        LET q == qlog.qframes
        IN  /\ Len(q) = qlog.enq - Len(outgoing)
            /\ \A i, j \in 1..Len(q) : i < j => q[i] < q[j]
            /\ q # <<>> => q[Len(q)] - q[1] + 1 = Len(q) + Cardinality(PingsWithin(q))
            /\ PingsWithin(q) = {} => Consecutive(q)

\* Three queued requests were sent without error and a keepalive frame was built
\* between two of them.
C9_Witness ==
    /\ ~qlog.any_fail
    /\ Len(qlog.qframes) = 3
    /\ PingsWithin(qlog.qframes) # {}
    /\ wk.pc = "top"

\* ------------------------------------------------- _dispatch_incoming
\* How many handlers are registered in all.
MaxHandlers == 3

Statuses == {"None", "EDITED", "REMOVED"}
\* The inbound frames followed: message notifications of every status, with a
\* chat id and a message id, with chat id 0, without a message id, and one whose
\* payload does not decode; an attachment notification; reaction changes with
\* and without a chat id; chat updates that decode and that do not; a frame with
\* another opcode.
InboundFrames ==
    {[opcode |-> "NOTIF_MESSAGE", status |-> s, chat_id |-> c[1], id |-> c[2],
      decoded |-> TRUE,
      file_id |-> NoneVal, video_id |-> NoneVal] : s \in Statuses, c \in {<<42, 7>>, <<0, 7>>, <<42, NoneVal>>}}
    \cup {[opcode |-> "NOTIF_MESSAGE", status |-> "None", chat_id |-> NoneVal,
           id |-> NoneVal, decoded |-> FALSE,
      file_id |-> NoneVal, video_id |-> NoneVal]}
    \cup {[opcode |-> "NOTIF_MSG_REACTIONS_CHANGED", status |-> "None",
           chat_id |-> c, id |-> 7, decoded |-> TRUE,
      file_id |-> NoneVal, video_id |-> NoneVal] : c \in {42, NoneVal}}
    \cup {[opcode |-> "NOTIF_CHAT", status |-> "None", chat_id |-> 42,
           id |-> NoneVal, decoded |-> d,
      file_id |-> NoneVal, video_id |-> NoneVal] : d \in BOOLEAN}
    \cup {[opcode |-> o, status |-> "None", chat_id |-> NoneVal, id |-> NoneVal,
           decoded |-> TRUE,
      file_id |-> NoneVal, video_id |-> NoneVal] : o \in {"NOTIF_ATTACH", "PING"}}

RECURSIVE SumLen(_, _)
SumLen(len, cs) ==
    IF cs = {} THEN 0
    ELSE LET c == CHOOSE x \in cs : TRUE IN len[c] + SumLen(len, cs \ {c})

\* A connected session, over a WebSocket or over a raw socket, with some
\* handlers registered.
DispatchInit ==
    /\ is_connected = TRUE
    /\ \E mode \in {"ws", "socket"} :
          /\ ws = (IF mode = "ws" THEN "open" ELSE "None")
          /\ socket = (IF mode = "socket" THEN "open" ELSE "None")
    /\ seq = 0
    /\ pending = {}
    /\ fut = [k \in 1..MaxSeq |-> "unused"]
    /\ completions = [k \in 1..MaxSeq |-> 0]
    /\ frames = <<>>
    /\ background_tasks = {"recv", "outgoing", "ping"}
    /\ tstat = [t \in TaskIds |-> IF t = "h1" THEN "none" ELSE "running"]
    /\ recv_task = "recv"
    /\ outgoing_task = "outgoing"
    /\ waiting = [c \in Callers |-> 0]
    /\ cl = [pc |-> "idle", snapshot |-> {}, cur |-> NoTask, calls |-> 0, started |-> TRUE]
    /\ hp = [ret |-> FALSE, case |-> "never_called"]
    /\ QueueIdle
    /\ \E len \in {l \in [Categories -> 0..MaxHandlers] :
                        SumLen(l, Categories) <= MaxHandlers} :
          \E fm \in [1..len["message"] -> FiltersOf("message")],
             fe \in [1..len["edit"] -> FiltersOf("edit")],
             fd \in [1..len["delete"] -> FiltersOf("delete")] :
             handlers = [c \in Categories |->
                            CASE c = "message" -> fm
                              [] c = "edit" -> fe
                              [] c = "delete" -> fd
                              [] OTHER -> [i \in 1..len[c] |-> "none"]]
    /\ dp = [pc |-> "idle", i |-> 0, awaiting |-> FALSE, cause |-> "None",
             frame |-> NoFrame]
    /\ dlog = [invoked |-> [c \in Categories |-> [i \in 1..Len(handlers[c]) |-> 0]],
               acks |-> <<>>, popped |-> {}]
    /\ UploadIdle
    /\ SyncIdle

\* The handler set _handle_message_notifications selects for a message:
\* handlers_map for EDITED and REMOVED, self._on_message_handlers when the
\* status is None.
Selected(f) ==
    CASE f.status = "EDITED" -> "edit"
      [] f.status = "REMOVED" -> "delete"
      [] OTHER -> "message"

\* A plausible bug: the reaction and chat stages do not look at the opcode.
StageList_any_opcode(stage, f) ==
    CASE stage = "raw" -> handlers["raw"]
      [] stage = "message" -> handlers[Selected(f)]
      [] stage = "reaction" -> handlers["reaction"]
      [] stage = "chat" -> handlers["chat"]
      [] OTHER -> <<>>

\* The list a stage iterates for the frame at hand.
StageList(stage, f) ==
    CASE stage = "raw" -> handlers["raw"]
      [] stage = "message" -> handlers[Selected(f)]
      [] stage = "reaction" ->
             IF f.opcode = "NOTIF_MSG_REACTIONS_CHANGED" /\ Truthy(f.chat_id) /\ Truthy(f.id)
             THEN handlers["reaction"] ELSE <<>>
      [] stage = "chat" ->
             IF f.opcode = "NOTIF_CHAT" /\ f.decoded THEN handlers["chat"] ELSE <<>>
      [] OTHER -> <<>>

Invoke(c, i) == [dlog EXCEPT !.invoked[c][i] = @ + 1]

\* The receive loop hands one frame to _dispatch_incoming.
DispatchIncoming(f) ==
    /\ dp.pc \in {"idle", "done", "raised"}
    /\ dp' = [pc |-> "raw", i |-> 1, awaiting |-> FALSE, cause |-> "None", frame |-> f]
    /\ dlog' = [invoked |-> [c \in Categories |-> [i \in 1..Len(handlers[c]) |-> 0]],
                acks |-> <<>>, popped |-> {}]
    /\ UNCHANGED <<session_vars, queue_vars, sync_vars, handlers, upload_vars>>

\* One handler of _handle_raw_receive, _handle_reactions or _handle_chat_updates:
\* the call is inside try/except Exception, and a coroutine it returns is awaited
\* on the spot.
InlineHandler(stage, outcome) ==
    /\ dp.pc = stage
    /\ ~dp.awaiting
    /\ dp.i <= Len(StageList(stage, dp.frame))
    /\ dlog' = Invoke(stage, dp.i)
    /\ dp' = IF outcome = "coroutine"
             THEN [dp EXCEPT !.awaiting = TRUE]
             ELSE [dp EXCEPT !.i = @ + 1]
    /\ UNCHANGED <<session_vars, queue_vars, sync_vars, handlers, upload_vars>>

\* "await result" of such a handler ends: the coroutine returned, or it raised
\* and the exception was logged.
InlineAwaited(outcome) ==
    /\ dp.awaiting
    /\ outcome \in {"returns", "raises"}
    /\ dp' = [dp EXCEPT !.awaiting = FALSE, !.i = @ + 1]
    /\ UNCHANGED <<session_vars, queue_vars, sync_vars, handlers, dlog, upload_vars>>

HandleRawReceive(outcome) == InlineHandler("raw", outcome)
HandleReactions(outcome) == InlineHandler("reaction", outcome)
HandleChatUpdates(outcome) == InlineHandler("chat", outcome)

\* Whether _send_notification_response sends: not without a raw socket, and not
\* when the session is not connected.
SendsResponse == socket # "None" /\ is_connected

\* A plausible bug: the waiter is looked up, not popped.
resolve_waiter_keeps_entry(st, id) ==
    IF id = NoneVal \/ id \notin st.keys THEN st
    ELSE [keys |-> st.keys,
          fut |-> IF st.fut[id] = "waiting" THEN [st.fut EXCEPT ![id] = "result"]
                  ELSE st.fut,
          done |-> IF st.fut[id] = "waiting" THEN [st.done EXCEPT ![id] = @ + 1]
                   ELSE st.done,
          popped |-> st.popped]

\* One key of _handle_file_upload's loop: "self._file_upload_waiters.pop(id_,
\* None)" takes the waiter out of the table, and "if fut and not fut.done()" it
\* is given the frame as its result. st is the table, the futures, how often
\* each was fulfilled, and the keys taken out so far.
resolve_waiter(st, id) ==
    IF id = NoneVal \/ id \notin st.keys THEN st
    ELSE [keys |-> st.keys \ {id},
          fut |-> IF st.fut[id] = "waiting" THEN [st.fut EXCEPT ![id] = "result"]
                  ELSE st.fut,
          done |-> IF st.fut[id] = "waiting" THEN [st.done EXCEPT ![id] = @ + 1]
                   ELSE st.done,
          popped |-> st.popped \cup {id}]

\* _handle_file_upload: nothing for another opcode; for an attachment
\* notification the keys "fileId" and "videoId" of the payload, in this order.
handle_file_upload(f, st) ==
    IF f.opcode # "NOTIF_ATTACH" THEN st
    ELSE resolve_waiter(resolve_waiter(st, f.file_id), f.video_id)

\* _handle_raw_receive is through; _handle_file_upload resolves the upload
\* waiters the frame names; _handle_message_notifications starts: it returns
\* for another opcode or a payload that does not decode, and "if msg.chat_id
\* and msg.id" it calls _send_notification_response, which sends the
\* acknowledgment through _send_and_wait and waits for its outcome.
HandleMessageNotifications ==
    /\ dp.pc = "raw"
    /\ ~dp.awaiting
    /\ dp.i > Len(handlers["raw"])
    /\ LET f == dp.frame
           acked == Truthy(f.chat_id) /\ Truthy(f.id) /\ SendsResponse
           up == handle_file_upload(f, [keys |-> file_upload_waiters, fut |-> upload_fut,
                                        done |-> upload_done, popped |-> {}])
       IN  /\ file_upload_waiters' = up.keys
           /\ upload_fut' = up.fut
           /\ upload_done' = up.done
           /\ IF f.opcode # "NOTIF_MESSAGE" \/ ~f.decoded
              THEN /\ dp' = [dp EXCEPT !.pc = "reaction", !.i = 1]
                   /\ dlog' = [dlog EXCEPT !.popped = up.popped]
              ELSE /\ dp' = [dp EXCEPT !.pc = IF acked THEN "ack" ELSE "message",
                                       !.i = 1]
                   /\ dlog' = [dlog EXCEPT
                                 !.popped = up.popped,
                                 !.acks = IF acked
                                          THEN Append(@, [chat_id |-> f.chat_id,
                                                          message_id |-> f.id])
                                          ELSE @]
    /\ UNCHANGED <<session_vars, queue_vars, sync_vars, handlers>>

\* The acknowledgment's _send_and_wait ends: it returns the reply, or it raises
\* (a timeout, a transport error), and nothing in _send_notification_response,
\* _handle_message_notifications or _dispatch_incoming catches what it raises.
SendNotificationResponse(outcome) ==
    /\ dp.pc = "ack"
    /\ outcome \in {"returns", "raises"}
    /\ dp' = IF outcome = "returns"
             THEN [dp EXCEPT !.pc = "message"]
             ELSE [dp EXCEPT !.pc = "raised", !.cause = "ack"]
    /\ UNCHANGED <<session_vars, queue_vars, sync_vars, handlers, dlog, upload_vars>>

\* _process_message_handler for one (handler, filter) pair of the selected set:
\* a filter that rejects skips the handler; otherwise the handler is called and
\* a coroutine it returns is handed to _create_safe_task. Neither the filter nor
\* the handler is called inside a try block.
ProcessMessageHandler(outcome) ==
    /\ dp.pc = "message"
    /\ dp.i <= Len(StageList("message", dp.frame))
    /\ LET c == Selected(dp.frame)
           filter == handlers[c][dp.i]
       IN  CASE filter = "raises" ->
                  /\ outcome = "raises"
                  /\ dp' = [dp EXCEPT !.pc = "raised", !.cause = "filter"]
                  /\ UNCHANGED <<dlog, background_tasks, tstat>>
             [] filter = "reject" ->
                  /\ outcome = "returns"
                  /\ dp' = [dp EXCEPT !.i = @ + 1]
                  /\ UNCHANGED <<dlog, background_tasks, tstat>>
             [] OTHER ->
                  /\ dlog' = Invoke(c, dp.i)
                  /\ dp' = IF outcome = "raises"
                           THEN [dp EXCEPT !.pc = "raised", !.cause = "handler"]
                           ELSE [dp EXCEPT !.i = @ + 1]
                  /\ IF outcome = "coroutine"
                     THEN /\ background_tasks' = create_safe_task(background_tasks, "h1")
                          /\ tstat' = [tstat EXCEPT !["h1"] = "running"]
                     ELSE UNCHANGED <<background_tasks, tstat>>
    /\ UNCHANGED <<conn_vars, seq, corr_vars, frames, recv_task, outgoing_task,
                   waiting, cl, hp, queue_vars, sync_vars, handlers, upload_vars>>

\* A stage has been through its list (or does not apply to the frame): the next
\* stage of _dispatch_incoming starts, and after the last one it returns.
NextStage(stage) ==
    CASE stage = "message" -> "reaction"
      [] stage = "reaction" -> "chat"
      [] OTHER -> "done"

StageDone(stage) ==
    /\ dp.pc = stage
    /\ ~dp.awaiting
    /\ dp.i > Len(StageList(stage, dp.frame))
    /\ dp' = [dp EXCEPT !.pc = NextStage(stage), !.i = 1]
    /\ UNCHANGED <<session_vars, queue_vars, sync_vars, handlers, dlog, upload_vars>>

MessageNotificationsDone == StageDone("message")
ReactionsDone == StageDone("reaction")
ChatUpdatesDone == StageDone("chat")

\* The session is marked disconnected by another task, which can only run while
\* the pipeline is suspended or between two frames.
DispatchDisconnect ==
    /\ dp.awaiting \/ dp.pc \in {"idle", "ack", "done", "raised"}
    /\ Disconnect

\* The dispatch pipeline of a connected session.
NextDispatch ==
    \/ \E f \in InboundFrames : DispatchIncoming(f)
    \/ \E o \in HandlerOutcomes : HandleRawReceive(o)
    \/ HandleMessageNotifications
    \/ \E o \in HandlerOutcomes : SendNotificationResponse(o)
    \/ \E o \in HandlerOutcomes : ProcessMessageHandler(o)
    \/ MessageNotificationsDone
    \/ \E o \in HandlerOutcomes : HandleReactions(o)
    \/ ReactionsDone
    \/ \E o \in HandlerOutcomes : HandleChatUpdates(o)
    \/ ChatUpdatesDone
    \/ \E o \in HandlerOutcomes : InlineAwaited(o)
    \/ DispatchDisconnect

SpecDispatch == DispatchInit /\ [][NextDispatch]_vars

\* --------------------------------------------------- claims: dispatch
\* The dispatch of a decoded message notification has left the message stage.
MessageDispatched ==
    /\ dp.frame.opcode = "NOTIF_MESSAGE"
    /\ dp.frame.decoded
    /\ dp.pc \in {"reaction", "chat", "done", "raised"}

\* C7: a message notification goes to exactly the handler set its status
\* selects (EDITED: edit handlers, REMOVED: delete handlers, no status:
\* new-message handlers): no handler of another set is ever invoked for it, and
\* once it has been dispatched a handler of the selected set has been invoked
\* exactly when its filter is absent or returns true.
C7_DispatchBySelectedSet ==
    /\ dp.frame.opcode = "NOTIF_MESSAGE" =>
           \A c \in MessageSets \ {Selected(dp.frame)} :
              \A i \in 1..Len(handlers[c]) : dlog.invoked[c][i] = 0
    /\ MessageDispatched =>
           \A i \in 1..Len(handlers[Selected(dp.frame)]) :
              dlog.invoked[Selected(dp.frame)][i] =
                  (IF handlers[Selected(dp.frame)][i] \in {"none", "pass"} THEN 1 ELSE 0)

\* C8: for a message notification with a chat id and a message id and no status,
\* dispatched on a connected session with one unfiltered new-message handler
\* registered: over a transport that requires acknowledgment exactly one
\* acknowledgment naming that chat id and message id is sent, over one that does
\* not none is sent, and either way the handler is invoked exactly once.
C8_OneAckOneInvocation ==
    ( /\ MessageDispatched
      /\ dp.frame.status = "None"
      /\ dp.frame.chat_id # NoneVal
      /\ dp.frame.id # NoneVal
      /\ is_connected
      /\ handlers["message"] = <<"none">> )
    => /\ dlog.invoked["message"][1] = 1
       /\ dlog.acks = IF socket # "None"
                      THEN <<[chat_id |-> dp.frame.chat_id, message_id |-> dp.frame.id]>>
                      ELSE <<>>

\* C10: an exception raised by a handler or a filter never leaves
\* _dispatch_incoming, and when the dispatch of a frame is over every handler of
\* every stage that applies to the frame has been called.
C10_HandlerExceptionsContained ==
    /\ ~(dp.pc = "raised" /\ dp.cause \in {"handler", "filter"})
    /\ dp.pc \in {"done", "raised"} =>
           \A stage \in {"raw", "reaction", "chat"} :
              \A i \in 1..Len(StageList(stage, dp.frame)) : dlog.invoked[stage][i] = 1

\* C11: in no handler category does the dispatch pipeline wait for the coroutine
\* an asynchronous handler returned: the pipeline is never suspended on a
\* handler, so the dispatch of a frame ends without any handler's coroutine
\* having to finish.
C11_AsyncHandlersNeverAwaited == ~dp.awaiting

\* ------------------------------------------------------ upload waiters
\* Attachment notifications: with a file identifier, a video identifier, both
\* or neither.
AttachFrames ==
    {[opcode |-> "NOTIF_ATTACH", status |-> "None", chat_id |-> NoneVal,
      id |-> NoneVal, decoded |-> TRUE, file_id |-> a, video_id |-> b] :
        a \in UploadIds \cup {NoneVal}, b \in UploadIds \cup {NoneVal}}

\* Another task can run only while the pipeline is suspended or between two
\* frames.
PipelineSuspended == dp.awaiting \/ dp.pc \in {"idle", "ack", "done", "raised"}

\* An upload registers a waiter under the identifier it expects a notification
\* for: a new future, not yet resolved.
RegisterWaiter(id) ==
    /\ PipelineSuspended
    /\ id \notin file_upload_waiters
    /\ file_upload_waiters' = file_upload_waiters \cup {id}
    /\ upload_fut' = [upload_fut EXCEPT ![id] = "waiting"]
    /\ upload_done' = [upload_done EXCEPT ![id] = 0]
    /\ UNCHANGED <<session_vars, queue_vars, sync_vars, handlers, dp, dlog>>

\* The upload gives up waiting: its future is cancelled, the entry stays in
\* the table.
WaiterCancelled(id) ==
    /\ PipelineSuspended
    /\ id \in file_upload_waiters
    /\ upload_fut[id] = "waiting"
    /\ upload_fut' = [upload_fut EXCEPT ![id] = "cancelled"]
    /\ UNCHANGED <<session_vars, queue_vars, sync_vars, handlers, dp, dlog,
                   file_upload_waiters, upload_done>>

\* A connected session with two raw-receive hooks and one unfiltered handler in
\* every other category, and no upload waiting yet.
UploadInit ==
    /\ is_connected = TRUE
    /\ \E mode \in {"ws", "socket"} :
          /\ ws = (IF mode = "ws" THEN "open" ELSE "None")
          /\ socket = (IF mode = "socket" THEN "open" ELSE "None")
    /\ seq = 0
    /\ pending = {}
    /\ fut = [k \in 1..MaxSeq |-> "unused"]
    /\ completions = [k \in 1..MaxSeq |-> 0]
    /\ frames = <<>>
    /\ background_tasks = {"recv", "outgoing", "ping"}
    /\ tstat = [t \in TaskIds |-> IF t = "h1" THEN "none" ELSE "running"]
    /\ recv_task = "recv"
    /\ outgoing_task = "outgoing"
    /\ waiting = [c \in Callers |-> 0]
    /\ cl = [pc |-> "idle", snapshot |-> {}, cur |-> NoTask, calls |-> 0, started |-> TRUE]
    /\ hp = [ret |-> FALSE, case |-> "never_called"]
    /\ QueueIdle
    /\ handlers = [c \in Categories |->
                      IF c = "raw" THEN <<"none", "none">> ELSE <<"none">>]
    /\ dp = [pc |-> "idle", i |-> 0, awaiting |-> FALSE, cause |-> "None",
             frame |-> NoFrame]
    /\ dlog = [invoked |-> [c \in Categories |-> [i \in 1..Len(handlers[c]) |-> 0]],
               acks |-> <<>>, popped |-> {}]
    /\ UploadIdle
    /\ SyncIdle

\* The dispatch pipeline with uploads waiting for their notifications.
NextUpload ==
    \/ \E id \in UploadIds : RegisterWaiter(id)
    \/ \E id \in UploadIds : WaiterCancelled(id)
    \/ \E f \in InboundFrames \cup AttachFrames : DispatchIncoming(f)
    \/ \E o \in HandlerOutcomes : HandleRawReceive(o)
    \/ HandleMessageNotifications
    \/ \E o \in HandlerOutcomes : SendNotificationResponse(o)
    \/ \E o \in HandlerOutcomes : ProcessMessageHandler(o)
    \/ MessageNotificationsDone
    \/ \E o \in HandlerOutcomes : HandleReactions(o)
    \/ ReactionsDone
    \/ \E o \in HandlerOutcomes : HandleChatUpdates(o)
    \/ ChatUpdatesDone
    \/ \E o \in HandlerOutcomes : InlineAwaited(o)
    \/ DispatchDisconnect

SpecUpload == UploadInit /\ [][NextUpload]_vars

\* --------------------------------------------- claims: upload waiters
KnownOpcodes ==
    {"NOTIF_ATTACH", "NOTIF_MESSAGE", "NOTIF_MSG_REACTIONS_CHANGED", "NOTIF_CHAT"}
\* The frame being dispatched has none of the opcodes the pipeline knows.
UnknownOpcodeFrame == dp.frame # NoFrame /\ dp.frame.opcode \notin KnownOpcodes
\* A step of another task on the waiter table.
UploaderStep == \E id \in UploadIds : RegisterWaiter(id) \/ WaiterCancelled(id)

\* C12: a frame with none of the four notification opcodes goes to every
\* raw-receive hook and to nothing else: its dispatch does not raise, sends no
\* acknowledgment, calls no message, reaction or chat-update handler, has called
\* every raw-receive hook once when the raw stage is over, and no step of it
\* changes an upload waiter.
C12_UnknownOpcodeOnlyRawHooks ==
    /\ [](UnknownOpcodeFrame =>
            /\ dp.pc \notin {"raised", "ack", "message"}
            /\ dlog.acks = <<>>
            /\ dlog.popped = {}
            /\ \A c \in Categories \ {"raw"} :
                  \A i \in 1..Len(handlers[c]) : dlog.invoked[c][i] = 0
            /\ dp.pc \in {"reaction", "chat", "done"} =>
                  \A i \in 1..Len(handlers["raw"]) : dlog.invoked["raw"][i] = 1)
    /\ [][(UnknownOpcodeFrame /\ UnknownOpcodeFrame' /\ ~UploaderStep)
             => UNCHANGED upload_vars]_vars

\* A frame with another opcode has been through the pipeline: both raw-receive
\* hooks were called, the other handlers are registered and were not, and the
\* upload waiting for identifier 1 still waits.
C12_Witness ==
    /\ dp.pc = "done"
    /\ dp.frame.opcode = "PING"
    /\ dlog.invoked["raw"] = <<1, 1>>
    /\ \A c \in Categories \ {"raw"} : dlog.invoked[c] = <<0>>
    /\ 1 \in file_upload_waiters
    /\ upload_fut[1] = "waiting"

\* The identifiers an attachment notification names.
Named(f) ==
    IF f.opcode = "NOTIF_ATTACH" THEN {f.file_id, f.video_id} \ {NoneVal} ELSE {}

\* C13: an upload waiter is one-shot. The upload stage of the pipeline removes
\* exactly the waiters registered under the identifiers an attachment
\* notification names and gives each of them that is unresolved its result; a
\* frame naming an identifier without a waiter (never registered, or already
\* removed by an earlier notification) and a frame with another opcode change
\* nothing; no other step of the pipeline touches a waiter; and no waiter's
\* future is fulfilled twice.
C13_UploadWaiterOneShot ==
    /\ [](\A id \in UploadIds : upload_done[id] <= 1)
    /\ [][HandleMessageNotifications =>
            LET hit == Named(dp.frame) \cap file_upload_waiters
            IN  /\ file_upload_waiters' = file_upload_waiters \ hit
                /\ \A id \in UploadIds :
                      IF id \in hit /\ upload_fut[id] = "waiting"
                      THEN /\ upload_fut'[id] = "result"
                           /\ upload_done'[id] = upload_done[id] + 1
                      ELSE /\ upload_fut'[id] = upload_fut[id]
                           /\ upload_done'[id] = upload_done[id]]_vars
    /\ [][(~HandleMessageNotifications /\ ~UploaderStep) => UNCHANGED upload_vars]_vars

\* A second notification for identifier 1 has been through the pipeline after
\* the first one fulfilled and removed its waiter: it found nothing, and the
\* upload waiting for identifier 2 still waits.
C13_Witness ==
    /\ dp.pc = "done"
    /\ dp.frame.opcode = "NOTIF_ATTACH"
    /\ dp.frame.file_id = 1
    /\ dlog.popped = {}
    /\ 1 \notin file_upload_waiters
    /\ upload_fut[1] = "result"
    /\ upload_done[1] = 1
    /\ 2 \in file_upload_waiters
    /\ upload_fut[2] = "waiting"

\* ----------------------------------------------------------------- _sync
\* How many times _sync is called in one behaviour.
MaxSyncs == 2
\* How the login request ends: a reply, a reply whose payload has an error
\* field, a timeout, a transport failure.
SyncOutcomes == {"ok", "error_field", "timeout", "transport_failure"}

\* _sync is called on a started session and sends the login request.
SyncCall ==
    /\ cl.started
    /\ sy.pc \in {"idle", "done", "raised"}
    /\ sy.calls < MaxSyncs
    /\ sy' = [pc |-> "waiting", cause |-> "None", raised |-> "None", calls |-> sy.calls + 1]
    /\ UNCHANGED <<session_vars, queue_vars, dispatch_vars>>

\* The request ends. A reply without an error field is parsed and _sync
\* returns. Anything else lands in "except Exception": is_connected is set to
\* False and, "if self._ws", the WebSocket is closed; without a WebSocket
\* "self._ws = None" and "raise" follow at once. self._socket is not touched.
SyncReply(outcome) ==
    /\ sy.pc = "waiting"
    /\ IF outcome = "ok"
       THEN /\ sy' = [sy EXCEPT !.pc = "done"]
            /\ UNCHANGED is_connected
       ELSE /\ is_connected' = FALSE
            /\ sy' = IF ws # "None"
                     THEN [sy EXCEPT !.pc = "closing", !.cause = outcome]
                     ELSE [sy EXCEPT !.pc = "raised", !.cause = outcome, !.raised = outcome]
    /\ UNCHANGED <<ws, socket, seq, frames, corr_vars, task_vars, waiting, cl, hp,
                   queue_vars, dispatch_vars>>

\* "await self._ws.close()" ends: when it returns, "self._ws = None" and the
\* failure is re-raised; when close() itself raises, that exception leaves
\* _sync instead and self._ws keeps the socket.
SyncWsClosed(outcome) ==
    /\ sy.pc = "closing"
    /\ outcome \in {"returns", "raises"}
    /\ IF outcome = "returns"
       THEN /\ ws' = "None"
            /\ sy' = [sy EXCEPT !.pc = "raised", !.raised = sy.cause]
       ELSE /\ sy' = [sy EXCEPT !.pc = "raised", !.raised = "close_error"]
            /\ UNCHANGED ws
    /\ UNCHANGED <<is_connected, socket, seq, frames, corr_vars, task_vars, waiting,
                   cl, hp, queue_vars, dispatch_vars>>

\* start(), then _sync, while callers enqueue messages.
NextSync ==
    \/ \E mode \in {"ws", "socket"} : Start(mode)
    \/ SyncCall
    \/ \E o \in SyncOutcomes : SyncReply(o)
    \/ \E o \in {"returns", "raises"} : SyncWsClosed(o)
    \/ \E mr \in MaxRetriesChoices : QueueMessage(mr)

SpecSync == Init /\ [][NextSync]_vars

\* C14: when the sync request fails (a transport failure, a timeout, an error
\* field in the reply), _sync never leaves the session connected, and when it
\* has raised, the session is disconnected, the socket of either transport is
\* closed, and what it raised is the failure of the request.
C14_SyncFailureDisconnects ==
    /\ sy.pc \in {"closing", "raised"} => ~is_connected
    /\ sy.pc = "raised" =>
          /\ ws # "open"
          /\ socket # "open"
          /\ sy.raised = sy.cause
\* ------------------------------------------- the worker's outer handler
\* "await asyncio.sleep(1)" of the outer handler of _outgoing_loop.
ErrorSleep == 1

outgoing_loop_except_propagates(at) == [pc |-> "exited", msg |-> NoMsg, left |-> 0]

\* "except Exception: self.logger.exception(...); await asyncio.sleep(1)" around
\* the body of the loop: whatever the dequeue (at = "get") or a re-enqueue
\* (at = "put") raised, the worker sleeps a second inside the loop; the message
\* it held is gone.
outgoing_loop_except(at) == [pc |-> "error_sleep", msg |-> NoMsg, left |-> ErrorSleep]

\* "message = await self._outgoing.get()" raises.
WorkerGetRaises ==
    /\ wk.pc = "get"
    /\ wk' = outgoing_loop_except("get")
    /\ UNCHANGED <<session_vars, dispatch_vars, sync_vars, outgoing, error_count,
                   circuit_breaker, since_error, ping, qlog>>

\* "await self._outgoing.put(message)" raises after the retry delay.
WorkerPutRaises ==
    /\ wk.pc = "retry_sleep"
    /\ wk.left = 0
    /\ wk' = outgoing_loop_except("put")
    /\ UNCHANGED <<session_vars, dispatch_vars, sync_vars, outgoing, error_count,
                   circuit_breaker, since_error, ping, qlog>>

\* _send_and_wait raised, the failure opens the breaker, and the
\* "await self._outgoing.put(message)" of that branch raises.
WorkerTripPutRaises ==
    /\ wk.pc = "sending"
    /\ breaker_trips(error_count + 1)
    /\ error_count' = error_count + 1
    /\ since_error' = 0
    /\ circuit_breaker' = TRUE
    /\ wk' = outgoing_loop_except("put")
    /\ qlog' = [qlog EXCEPT !.any_fail = TRUE, !.qframes = <<>>]
    /\ UNCHANGED <<session_vars, dispatch_vars, sync_vars, outgoing, ping>>

\* The second of the outer handler is over: "while self.is_connected" again.
WorkerErrorWake ==
    /\ wk.pc = "error_sleep"
    /\ wk.left = 0
    /\ wk' = [pc |-> "top", msg |-> NoMsg, left |-> 0]
    /\ UNCHANGED <<session_vars, dispatch_vars, sync_vars, outgoing, error_count,
                   circuit_breaker, since_error, ping, qlog>>

\* The worker's task is cancelled while it waits for the queue, a send or a
\* sleep: CancelledError is no Exception, so neither handler of the loop catches
\* it and the task ends.
WorkerCancelled ==
    /\ tstat["outgoing"] = "running"
    /\ wk.pc \in {"get", "sending", "retry_sleep", "breaker_sleep", "error_sleep"}
    /\ tstat' = [tstat EXCEPT !["outgoing"] = "cancelled"]
    /\ wk' = [pc |-> "exited", msg |-> NoMsg, left |-> 0]
    /\ UNCHANGED <<conn_vars, seq, corr_vars, frames, background_tasks, recv_task, outgoing_task,
                   waiting, cl, hp, dispatch_vars, sync_vars, outgoing, error_count,
                   circuit_breaker, since_error, ping, qlog>>

\* The queue and its worker where the queue operations may raise and the
\* worker's task may be cancelled.
MaxWorkerEnqueue == 2

NextWorker ==
    \/ \E mr \in MaxRetriesChoices : qlog.enq < MaxWorkerEnqueue /\ QueueMessage(mr)
    \/ WorkerTop
    \/ WorkerWake
    \/ WorkerGet
    \/ WorkerSendOk
    \/ \E e \in ErrorClasses : WorkerSendFail(e)
    \/ Tick
    \/ Disconnect
    \/ WorkerGetRaises
    \/ WorkerPutRaises
    \/ WorkerTripPutRaises
    \/ WorkerErrorWake
    \/ WorkerCancelled

SpecWorker == QueueInit /\ [][NextWorker]_vars

\* C15: the outgoing worker leaves its loop only when the session is not
\* connected or its task is cancelled; an exception of the dequeue or of a
\* re-enqueue leaves it in the loop: it sleeps, and its next step from there is
\* to the top of the loop (unless it is cancelled first).
C15_WorkerExitsOnlyWhenDisconnected ==
    /\ [][wk.pc # "exited" /\ wk'.pc = "exited"
            => ~is_connected \/ tstat'["outgoing"] = "cancelled"]_vars
    /\ [](wk.pc = "exited" => ~is_connected \/ tstat["outgoing"] = "cancelled")
    /\ [][wk.pc = "error_sleep" /\ wk'.pc # "error_sleep"
            => wk'.pc = "top" \/ tstat'["outgoing"] = "cancelled"]_vars
    /\ [](wk.pc = "error_sleep" /\ wk.left = 0 => ENABLED WorkerErrorWake)

\* The worker is back at the top of its loop, connected, after a re-enqueue
\* raised and lost the message it held.
C15_Witness ==
    /\ is_connected
    /\ wk.pc = "top"
    /\ tstat["outgoing"] = "running"
    /\ \E id \in 1..MaxWorkerEnqueue :
          /\ id <= qlog.enq
          /\ ~InSystem(id)
          /\ qlog.attempts[id] > 0
\* ------------------------------------------------ claims: teardown tasks
\* C16: when close() has returned, no supervised task (receive loop, outgoing
\* worker, keepalive loop, handler task) is still running or still in the
\* background-task set, and from then on no task transmits a request.
C16_CloseStopsEveryTask ==
    /\ [](cl.pc = "done" =>
             /\ \A t \in TaskIds : tstat[t] \notin {"running", "cancelling"}
             /\ background_tasks = {})
    /\ [][cl.pc = "done" /\ cl'.pc = "done"
            => \A t \in TaskIds : waiting'[t] # 0 => waiting[t] # 0]_vars
\* ---------------------------------------------------- claims: keepalive
NotConnectedErrors == {"SocketNotConnectedError", "WebSocketNotConnectedError"}

\* C17: the keepalive loop builds a ping only while the session is connected;
\* after a ping that failed with the not-connected error of either transport
\* the loop has exited (and sends no other ping); after a ping that failed with
\* any other error the loop is still running, asleep or about to ping again,
\* unless the session was disconnected meanwhile.
C17_KeepaliveLoop ==
    /\ [][ping'.seqs # ping.seqs => is_connected]_vars
    /\ [](ping.last \in NotConnectedErrors => ping.pc = "exited")
    /\ [](ping.last = "Exception" /\ ping.pc = "exited" => ~is_connected)
\* ------------------------------------------- claims: breaker and counter
\* A failed queued send: the worker was sending and the error counter went up.
SendFailed == wk.pc = "sending" /\ error_count' = error_count + 1

\* C18: when a failed send takes the error counter above 10, the breaker is
\* opened, the message is put at the tail of the queue exactly as it was
\* dequeued (retry_count included) and the worker goes back to the top of its
\* loop without a retry sleep; a message is attempted more than max_retries + 1
\* times only through such failures, once more for each of them.
C18_BreakerTripRequeuesUnchanged ==
    /\ [][SendFailed /\ error_count' > BreakerThreshold
            => /\ circuit_breaker'
               /\ outgoing' = Append(outgoing, wk.msg)
               /\ wk'.pc = "top"
               /\ wk'.left = 0]_vars
    /\ [](\A d \in qlog.dropped : d.attempts = d.max_retries + 1 + d.trips)

\* A message was dropped after more than max_retries + 1 attempts.
C18_Witness ==
    \E d \in qlog.dropped : d.trips > 0 /\ d.attempts > d.max_retries + 1

\* C19: a failed send that is retried waits 1 second after a connection or
\* OS-level error, 5 seconds after a timeout, 2 seconds after a not-connected
\* error and 2 ** retry_count seconds after any other error.
C19_RetryDelayByErrorClass ==
    [][\A e \in ErrorClasses :
          (WorkerSendFail(e) /\ wk'.pc = "retry_sleep") =>
              wk'.left = CASE e = "ConnectionError" -> 1
                           [] e = "TimeoutError" -> 5
                           [] e = "WebSocketNotConnectedError" -> 2
                           [] OTHER -> Pow2(wk.msg.retry_count)]_vars

\* C20: the error counter changes only in a step of the outgoing worker (a
\* send that succeeded, a send that failed, or the reset as the breaker closes);
\* a successful send lowers it by one, or leaves it at 0; a failed send raises
\* it by one and records the time of the failure; it is never negative; and the
\* breaker goes from closed to open in exactly the failures that take the
\* counter above 10.
C20_ErrorCounter ==
    /\ [](error_count \in Nat)
    /\ [][error_count' # error_count
            => \/ WorkerSendOk
               \/ \E e \in ErrorClasses : WorkerSendFail(e)
               \/ WorkerTop /\ circuit_breaker /\ error_count' = 0]_vars
    /\ [][WorkerSendOk
            => error_count' = IF error_count = 0 THEN 0 ELSE error_count - 1]_vars
    /\ [][(\E e \in ErrorClasses : WorkerSendFail(e))
            => error_count' = error_count + 1 /\ since_error' = 0]_vars
    /\ [][(~circuit_breaker /\ circuit_breaker')
            <=> (SendFailed /\ error_count' > BreakerThreshold)]_vars

\* A message was sent successfully, and later a failed send took the counter
\* to 11 and opened the breaker.
C20_Witness ==
    /\ circuit_breaker
    /\ error_count = BreakerThreshold + 1
    /\ \E id \in 1..MaxEnqueue :
          /\ id <= qlog.enq
          /\ ~InSystem(id)
          /\ \A d \in qlog.dropped : d.payload # id

\* C21: the breaker is open only with the error counter at 11, the counter is
\* never above 11, it goes up by at most one in a step, and the step that
\* closes the breaker is the worker's, at the top of its loop, and resets the
\* counter to 0: the counter has to climb from 0 to 11 again before the breaker
\* reopens.
C21_BreakerOpenOnlyAtEleven ==
    /\ [](circuit_breaker => error_count = BreakerThreshold + 1)
    /\ [](error_count <= BreakerThreshold + 1)
    /\ [][error_count' <= error_count + 1]_vars
    /\ [][circuit_breaker /\ ~circuit_breaker' => WorkerTop /\ error_count' = 0]_vars

\* The breaker opened, the cool-down passed and the worker closed it: the
\* counter is back at 0 and the worker goes on to the queue.
C21_Witness ==
    /\ ~circuit_breaker
    /\ error_count = 0
    /\ wk.pc = "get"
    /\ since_error > CoolDown
    /\ \E id \in 1..MaxWorkerEnqueue : qlog.trips[id] > 0

\* ------------------------------------------------ the life of a message
\* The max_retries a caller may pass to _queue_message: any int, the default 3.
AnyMaxRetries == {-1, 0, 1, 3}

\* The queue and its worker with messages of any max_retries.
NextRetry ==
    \/ \E mr \in AnyMaxRetries : qlog.enq < MaxWorkerEnqueue /\ QueueMessage(mr)
    \/ WorkerTop
    \/ WorkerWake
    \/ WorkerGet
    \/ WorkerSendOk
    \/ \E e \in ErrorClasses : WorkerSendFail(e)
    \/ Tick
    \/ Disconnect

SpecRetry == QueueInit /\ [][NextRetry]_vars

\* In how many places the message with payload id is held.
Places(id) ==
    Cardinality({i \in 1..Len(outgoing) : outgoing[i].payload = id})
        + (IF wk.msg.payload = id THEN 1 ELSE 0)

\* What C22 says of a message whatever its max_retries: one place at most, a
\* retry_count that starts at 0, never goes down and changes only as the worker
\* handles a failed send of that message.
RetryCountDiscipline ==
    /\ [](\A id \in 1..MaxWorkerEnqueue : Places(id) <= 1)
    /\ [][\A id \in 1..MaxWorkerEnqueue :
            /\ (~InSystem(id) /\ InSystem(id)') => MessageOf(id)'.retry_count = 0
            /\ (InSystem(id) /\ InSystem(id)') =>
                  /\ MessageOf(id)'.retry_count >= MessageOf(id).retry_count
                  /\ MessageOf(id)'.retry_count # MessageOf(id).retry_count
                        => (SendFailed /\ wk.msg.payload = id)]_vars

\* C22 as stated: every message is held in one place at most, its retry_count
\* starts at 0, never decreases, is changed only by the worker, and every
\* message in the queue has 0 <= retry_count <= max_retries.
C22_RetryCountWithinMaxRetries ==
    /\ RetryCountDiscipline
    /\ [](\A i \in 1..Len(outgoing) :
             0 <= outgoing[i].retry_count
                 /\ outgoing[i].retry_count <= outgoing[i].max_retries)

\* C22 amended: the same, with the upper bound only for the messages enqueued
\* with max_retries >= 0; a message enqueued with a negative max_retries waits
\* in the queue with retry_count 0, above its max_retries.
C22_RetryCountWithinNonNegativeMaxRetries ==
    /\ RetryCountDiscipline
    /\ [](\A i \in 1..Len(outgoing) :
             /\ 0 <= outgoing[i].retry_count
             /\ outgoing[i].max_retries >= 0
                   => outgoing[i].retry_count <= outgoing[i].max_retries
             /\ outgoing[i].max_retries < 0 => outgoing[i].retry_count = 0)

\* A message is back in the queue with its last retry ahead (retry_count has
\* reached max_retries), behind a message enqueued with a negative max_retries.
C22_Witness ==
    /\ Len(outgoing) = 2
    /\ outgoing[1].max_retries < 0
    /\ outgoing[2].retry_count = outgoing[2].max_retries
    /\ outgoing[2].retry_count >= 1

\* --------------------------------------------- a queue that never runs dry
\* The application keeps enqueuing for as long as the session lives. To follow
\* one message through such a run with finitely many states, the message
\* watched has payload Watched and the rest of the traffic shares the payload
\* Traffic; the frames built and the bookkeeping of the other claims (seq,
\* frames, qlog) are left out of the steps below, which are otherwise the steps
\* of the worker above.
Watched == 1
Traffic == 2
\* Room for the ten failures that precede the one that opens the breaker.
StarveQueueLen == BreakerThreshold + 1
WatchedMaxRetries == {0, 1}

\* _queue_message: the watched message is enqueued when it is not in the
\* system; other traffic at any time (max_retries = 0: one attempt each).
QueueMessageAgain(id) ==
    /\ Len(outgoing) < StarveQueueLen
    /\ id = Watched => ~InSystem(Watched)
    /\ \E mr \in (IF id = Watched THEN WatchedMaxRetries ELSE {0}) :
          outgoing' = Append(outgoing, [payload |-> id, retry_count |-> 0,
                                        max_retries |-> mr])
    /\ UNCHANGED <<session_vars, dispatch_vars, sync_vars, error_count,
                   circuit_breaker, since_error, wk, ping, qlog>>

\* "message = await self._outgoing.get()" and the send begins.
WorkerGetAgain ==
    /\ wk.pc = "get"
    /\ outgoing # <<>>
    /\ outgoing' = Tail(outgoing)
    /\ wk' = [wk EXCEPT !.pc = "sending", !.msg = Head(outgoing)]
    /\ UNCHANGED <<session_vars, dispatch_vars, sync_vars, error_count,
                   circuit_breaker, since_error, ping, qlog>>

\* _send_and_wait returned.
WorkerSendOkAgain ==
    /\ wk.pc = "sending"
    /\ error_count' = decrement_error_count(error_count)
    /\ wk' = [pc |-> "top", msg |-> NoMsg, left |-> 0]
    /\ UNCHANGED <<session_vars, dispatch_vars, sync_vars, outgoing,
                   circuit_breaker, since_error, ping, qlog>>

\* _send_and_wait raised e: breaker trip, retry after the delay, or drop.
WorkerSendFailAgain(e) ==
    /\ wk.pc = "sending"
    /\ error_count' = error_count + 1
    /\ since_error' = 0
    /\ IF breaker_trips(error_count')
       THEN /\ circuit_breaker' = TRUE
            /\ outgoing' = breaker_requeue(outgoing, wk.msg)
            /\ wk' = [pc |-> "top", msg |-> NoMsg, left |-> 0]
       ELSE IF should_retry(wk.msg.retry_count, wk.msg.max_retries)
       THEN /\ wk' = [pc |-> "retry_sleep",
                      msg |-> [wk.msg EXCEPT !.retry_count = @ + 1],
                      left |-> get_retry_delay(e, wk.msg.retry_count)]
            /\ UNCHANGED <<circuit_breaker, outgoing>>
       ELSE /\ wk' = [pc |-> "top", msg |-> NoMsg, left |-> 0]
            /\ UNCHANGED <<circuit_breaker, outgoing>>
    /\ UNCHANGED <<session_vars, dispatch_vars, sync_vars, ping, qlog>>

NextStarve ==
    \/ \E id \in {Watched, Traffic} : QueueMessageAgain(id)
    \/ WorkerTop
    \/ WorkerWake
    \/ WorkerGetAgain
    \/ WorkerSendOkAgain
    \/ \E e \in ErrorClasses : WorkerSendFailAgain(e)
    \/ Tick
    \/ Disconnect

\* The worker is scheduled, the clock runs and every send ends.
SpecStarve ==
    /\ QueueInit
    /\ [][NextStarve]_vars
    /\ WF_vars(WorkerTop \/ WorkerWake \/ WorkerGetAgain)
    /\ WF_vars(Tick)
    /\ WF_vars(WorkerSendOkAgain \/ \E e \in ErrorClasses : WorkerSendFailAgain(e))

\* C23 as stated: in a connected session with a fairly scheduled worker every
\* enqueued message eventually leaves the system (sent or dropped).
C23_EveryMessageLeaves ==
    InSystem(Watched) ~> (~InSystem(Watched) \/ ~is_connected)

\* C23 amended: when the application stops enqueuing from some point on (only
\* finitely many messages are ever enqueued), every enqueued message
\* eventually leaves the system, whatever fails and however often the breaker
\* trips; under traffic that never stops, a message can fail as the eleventh
\* failure of every breaker episode and circulate forever.
C23_EveryMessageLeavesFiniteTraffic ==
    \/ []<><<\E id \in {Watched, Traffic} : QueueMessageAgain(id)>>_vars
    \/ InSystem(Watched) ~> (~InSystem(Watched) \/ ~is_connected)

\* The watched message has failed as the eleventh failure in a row: the breaker
\* is open and the message is back at the tail with its retry_count untouched,
\* behind ten messages of other traffic.
C23_Witness ==
    /\ circuit_breaker
    /\ is_connected
    /\ Len(outgoing) = StarveQueueLen
    /\ outgoing[StarveQueueLen].payload = Watched
    /\ outgoing[StarveQueueLen].retry_count = 0
    /\ wk.pc = "breaker_sleep"

\* ------------------------------------------------- claims: one at a time
\* C24: the worker holds at most one message: a message leaves the queue only
\* from its head, into the hands of a worker that holds none and starts its
\* send; a message the worker puts back goes to the tail, behind everything
\* enqueued meanwhile; and as long as no send has failed, the messages are
\* taken in the order they were enqueued (payloads number the calls of
\* _queue_message).
C24_OneMessageInFlight ==
    /\ [][Len(outgoing') < Len(outgoing)
            => /\ wk.pc = "get"
               /\ wk.msg = NoMsg
               /\ wk'.pc = "sending"
               /\ wk'.msg = Head(outgoing)
               /\ outgoing' = Tail(outgoing)]_vars
    /\ [](wk.pc \in {"sending", "retry_sleep"} <=> wk.msg # NoMsg)
    /\ [][(wk.msg # NoMsg /\ wk'.msg = NoMsg /\ wk.msg.payload \in QueuedIds')
            => outgoing' = Append(outgoing, wk.msg)]_vars
    /\ [](~qlog.any_fail =>
             /\ \A i \in 1..Len(outgoing) :
                   outgoing[i].payload = qlog.enq - Len(outgoing) + i
             /\ wk.msg # NoMsg => wk.msg.payload = qlog.enq - Len(outgoing))

\* The first message failed and slept its retry delay while the second was
\* enqueued: it is back in the queue behind the second, which was never sent.
C24_Witness ==
    /\ Len(outgoing) = 2
    /\ outgoing[1].payload = 2
    /\ outgoing[1].retry_count = 0
    /\ outgoing[2].payload = 1
    /\ outgoing[2].retry_count = 1
    /\ wk.msg = NoMsg

====
